---- MODULE Spec2Model ----
(***************************************************************************)
(* The SigningSavvy -> Anki synchronisation script (anki.py): the decks    *)
(* are ensured, the store's tags are listed once, the 26 letter buckets of *)
(* the content provider are browsed, and for every word that is not        *)
(* already tagged a front and a back note are added per processed variant. *)
(* The store (AnkiConnect) and the content provider are the environment:   *)
(* their answers are drawn from small sets.                                *)
(***************************************************************************)
EXTENDS Integers, Sequences, FiniteSets, TLC

\* ------------------------------------------------------------- bounds
\* Number of letter buckets of the alphabet that are browsed (26 in the code).
NumLetters == 2
\* Search results the content provider lists in one run, over all buckets.
MaxResults == 2
\* Longest variants sequence of a word detail.
MaxVariants == 3
\* Store or transport faults (refused, bad envelope, rejected, fetch failure).
MaxFaults == 1
\* Runs of the script, for the specification that re-runs it.
MaxRuns == 2
\* Sentence categories the provider lists.
MaxCategories == 1
\* Variants of the longest word detail, for the specification that runs the
\* script against words with many variants.
MaxMediaVariants == 12

\* ------------------------------------------------- script constants
dWords == "nonfiction::asl::words"
dSentences == "nonfiction::asl::sentences"
base == "http://127.0.0.1"
ssbase == "https://www.signingsavvy.com"
port == "5954"
hq == "hd"

Alphabet ==
    << "a", "b", "c", "d", "e", "f", "g", "h", "i", "j", "k", "l", "m",
       "n", "o", "p", "q", "r", "s", "t", "u", "v", "w", "x", "y", "z" >>

Letters == SubSeq(Alphabet, 1, NumLetters)

Decks == << dWords, dSentences >>

\* ------------------------------------------------------ text helpers
DigitChars == << "0", "1", "2", "3", "4", "5", "6", "7", "8", "9" >>

IsDigit(c) == \E k \in 1..10 : DigitChars[k] = c

\* str(n) of a non-negative int, as the f-strings format it.
RECURSIVE PyStr(_)
PyStr(n) ==
    IF n < 10 THEN DigitChars[n + 1]
    ELSE PyStr(n \div 10) \o DigitChars[(n % 10) + 1]

\* A uri is kept as its sequence of characters; Join is the string it spells.
RECURSIVE Join(_)
Join(cs) == IF cs = << >> THEN "" ELSE cs[1] \o Join(Tail(cs))

\* The longest run of digits that ends the string.
RECURSIVE TrailingDigits(_)
TrailingDigits(cs) ==
    IF cs = << >> \/ ~IsDigit(cs[Len(cs)]) THEN << >>
    ELSE Append(TrailingDigits(SubSeq(cs, 1, Len(cs) - 1)), cs[Len(cs)])

\* re.findall(r"\d+$", uri): the list of matches, at most one.
FindallTrailingDigits(cs) ==
    IF TrailingDigits(cs) = << >> THEN << >> ELSE << Join(TrailingDigits(cs)) >>

\* Python's None as a value of the same shape as a returned result.
PyNone == [none |-> TRUE, val |-> {}]
Some(v) == [none |-> FALSE, val |-> v]

\* ------------------------------------------- content provider payloads
\* A parsed JSON object is a record together with the set `has` of the
\* attributes the payload really carries: reading an attribute outside `has`
\* raises AttributeError.
Uris == { << "A", "/", "7" >>, << "B", "/", "1", "2" >>, << "C" >> }

WordIds == { 7, 12 }

ExampleFields == { "english", "asl" }
VariantFields == { "desc", "type", "aid", "video", "usage" }
DetailFields == { "id", "name", "clarification", "variants" }

ExGood == [has |-> ExampleFields, english |-> "Hi", asl |-> "HELLO"]
ExNoAsl == [has |-> { "english" }, english |-> "Bye", asl |-> ""]
ExNoEnglish == [has |-> { "asl" }, english |-> "", asl |-> "BYE"]

Variant(has, usage) ==
    [has |-> has, desc |-> "D", type |-> "T", aid |-> "M", video |-> "v.mp4",
     usage |-> usage]

VGood == Variant(VariantFields, << ExGood >>)
VPartialUsage == Variant(VariantFields, << ExNoEnglish, ExNoAsl, ExGood >>)
VMissing(f) == Variant(VariantFields \ { f }, << ExGood >>)

DefectVariants == { VPartialUsage } \cup { VMissing(f) : f \in VariantFields }

GoodList(n) == [k \in 1..n |-> VGood]

\* The variants sequences the provider may serve: all well formed, or with one
\* defective variant at the last position the loop reaches.
VariantLists ==
    UNION { { GoodList(n) } \cup
            { [GoodList(n) EXCEPT ![n - 1] = v] : v \in IF n >= 2 THEN DefectVariants ELSE { } }
            : n \in 1..MaxVariants }

WordDetail(has, id, vs) ==
    [asked |-> TRUE, has |-> has, id |-> id, name |-> "HELLO",
     clarification |-> "greeting", variants |-> vs]

DetailPayloads ==
    { WordDetail(DetailFields, id, GoodList(n)) : id \in WordIds, n \in 1..MaxVariants }
    \cup { WordDetail(DetailFields, 7, vs) : vs \in VariantLists }
    \cup { WordDetail(DetailFields \ { f }, 7, GoodList(2)) : f \in DetailFields }

NoDetail == [asked |-> FALSE, has |-> { }, id |-> 0, name |-> "",
             clarification |-> "", variants |-> << >>]

\* Sequences over S of length at most n.
SeqUpTo(S, n) == UNION { [1..k -> S] : k \in 0..n }

SearchResult(u) == [has |-> { "uri" }, uri |-> u]

\* /browse/{letter}: an object with signs.search_results, or one without.
BrowsePayloads(budget) ==
    { [asked |-> TRUE, signs |-> FALSE, results |-> << >>] }
    \cup { [asked |-> TRUE, signs |-> TRUE, results |-> rs] :
             rs \in SeqUpTo({ SearchResult(u) : u \in Uris }, budget) }

\* /sentences: an object with categories (a list of identifiers), or without.
CategoriesPayloads ==
    { [has |-> { }, categories |-> << >>] }
    \cup { [has |-> { "categories" }, categories |-> cs] :
             cs \in SeqUpTo({ "greetings" }, MaxCategories) }

\* A sentence uri is kept as its path pieces.
SentenceUris == { << "sentences/", "31" >> }

\* /sentences/{category}: an object whose categories lists the sentences.
CategoryPayloads ==
    { [has |-> { }, categories |-> << >>] }
    \cup { [has |-> { "categories" }, categories |-> rs] :
             rs \in SeqUpTo({ SearchResult(u) : u \in SentenceUris }, 1) }

SentenceFields == { "id", "english", "category", "asl", "video", "glossary" }
GlossFields == { "id", "name" }

SentenceDetail(has, glossary) ==
    [has |-> has, id |-> 31, english |-> "Good morning", category |-> "greetings",
     asl |-> "GOOD MORNING", video |-> "s.mp4", glossary |-> glossary]

SentencePayloads ==
    { SentenceDetail(SentenceFields, << >>),
      SentenceDetail(SentenceFields, << [has |-> GlossFields, id |-> 7, name |-> "GOOD"] >>),
      SentenceDetail(SentenceFields, << [has |-> { "id" }, id |-> 7, name |-> ""] >>),
      SentenceDetail(SentenceFields \ { "asl" }, << >>) }

NoBrowse == [asked |-> FALSE, signs |-> FALSE, results |-> << >>]

\* ------------------------------------------------- store (AnkiConnect)
EnvelopeKeys == { "error", "result", "extra" }

\* Malformed envelopes: a key too few, a key too many, and two keys of which
\* one is not error or not result.
BadEnvelopes ==
    { { "result" }, { "error", "result", "extra" }, { "result", "extra" },
      { "error", "extra" } }

OkReply == [refused |-> FALSE, keys |-> { "error", "result" }, error |-> FALSE]

\* The store refuses the connection, answers with a malformed envelope, or
\* answers a well-formed envelope whose error slot is not null.
FaultReplies ==
    { [refused |-> TRUE, keys |-> { }, error |-> FALSE] }
    \cup { [refused |-> FALSE, keys |-> K, error |-> FALSE] : K \in BadEnvelopes }
    \cup { [refused |-> FALSE, keys |-> { "error", "result" }, error |-> TRUE] }

\* The store carried the action out: it answered, with a result and no error.
Applied(resp) == ~resp.refused /\ ~resp.error /\ "result" \in resp.keys

\* ------------------------------------------------------------ invoke
\* Mutant: the number of fields is not checked.
InvokeOutcomeNoCount(resp) ==
    IF resp.refused THEN "URLError"
    ELSE IF "error" \notin resp.keys THEN "Exception: Missing required error field."
    ELSE IF "result" \notin resp.keys THEN "Exception: Missing required result field."
    ELSE "return"

\* invoke: what the call does with the store's answer. urlopen raises URLError
\* when the connection is refused; the envelope is then checked field by field.
InvokeOutcome(resp) ==
    IF resp.refused THEN "URLError"
    ELSE IF Cardinality(resp.keys) # 2 THEN "Exception: Unexpected number of fields."
    ELSE IF "error" \notin resp.keys THEN "Exception: Missing required error field."
    ELSE IF "result" \notin resp.keys THEN "Exception: Missing required result field."
    ELSE "return"

\* res["result"]: the store's value, or None when the store gave no result.
InvokeResult(resp, value) == IF Applied(resp) THEN Some(value) ELSE PyNone

\* Mutant: URLError is not caught.
HandlerCatchesNothing(e) == "crashed"

\* The try/except of the main block: URLError is caught and logged, any other
\* exception leaves the script uncaught.
Handler(e) == IF e = "URLError" THEN "aborted" ELSE "crashed"

\* ------------------------------------------------------------- cards
Options(deckName) ==
    [allowDuplicate |-> FALSE, duplicateScope |-> "deck",
     duplicateScopeOptions |->
        [deckName |-> deckName, checkChildren |-> FALSE, checkAllmodels |-> FALSE]]

\* One usage example appended to the usage text: the English line is added
\* before the ASL line is formatted, and a failure is swallowed where it occurs.
ExampleText(e) ==
    IF "english" \notin e.has THEN ""
    ELSE ("English: " \o e.english \o "<br />")
         \o (IF "asl" \notin e.has THEN "" ELSE "ASL: " \o e.asl \o "<br /><br />")

RECURSIVE UsageText(_)
UsageText(us) ==
    IF us = << >> THEN "" ELSE ExampleText(us[1]) \o UsageText(Tail(us))

\* Mutant: the loop visits every variant.
VariantRangeAll(info) == 0..(Len(info.variants) - 1)

\* range(len(info.variants) - 1): the zero-based positions the loop visits.
VariantRange(info) == 0..(Len(info.variants) - 2)

\* Building the word dict of variant i (zero-based) reads these attributes.
WordRaises(info, i) ==
    \/ { "id", "name", "clarification" } \ info.has # { }
    \/ VariantFields \ info.variants[i + 1].has # { }

WordDict(info, i) ==
    LET variant == info.variants[i + 1] IN
    [id |-> PyStr(info.id),
     variantId |-> PyStr(i + 1),
     content |-> info.name \o " (" \o info.clarification \o ") - " \o PyStr(i + 1),
     extra |-> "Description: " \o variant.desc \o "<br /><br />Type: " \o variant.type
               \o "<br /><br />Usage:<br />" \o UsageText(variant.usage),
     mind |-> variant.aid,
     type |-> "word",
     video |-> ssbase \o "/media/mp4-" \o hq \o "/" \o variant.video]

NoWord == [id |-> "", variantId |-> "", content |-> "", extra |-> "", mind |-> "",
           type |-> "", video |-> ""]

\* addNote reads data['variantId'] while it builds the note: a dict without
\* that key raises KeyError before anything is sent.
AddNoteRaises(data) == "variantId" \notin DOMAIN data

IdTag(data) == "asl::" \o data.type \o "-id::" \o data.id
\* Mutant: the second tag is built from the word id.
VariantTagFromId(data) == "asl::" \o data.type \o "-variant-id::" \o data.id

VariantTag(data) == "asl::" \o data.type \o "-variant-id::" \o data.variantId
MediaFilename(data) == data.id \o data.variantId \o ".mp4"

\* Mutant: the video always goes to the Back field.
VideoFieldBack(front) == "Back"

\* The field the video is attached to: the one opposite to the content.
VideoField(front) == IF front THEN "Back" ELSE "Front"

NoteExtra(data) == "\n" \o data.extra \o "\n<br />\nMemory aid: " \o data.mind \o "\n"

Note(options, data, deck, front) ==
    [deckName |-> deck,
     modelName |-> "Basic",
     fields |-> [Front |-> IF front THEN data.content ELSE "Video: ",
                 Back |-> IF front THEN NoteExtra(data)
                          ELSE data.content \o "<br /><br />" \o NoteExtra(data)],
     options |-> options,
     tags |-> << IdTag(data), VariantTag(data) >>,
     video |-> << [url |-> data.video,
                   filename |-> MediaFilename(data),
                   fields |-> << VideoField(front) >>] >>]

NoNote == [deckName |-> ""]

\* The glossary block: one line per entry, empty when there is no entry.
RECURSIVE GlossLines(_)
GlossLines(g) ==
    IF g = << >> THEN ""
    ELSE PyStr(g[1].id) \o ": " \o g[1].name \o "<br />" \o GlossLines(Tail(g))

GlossText(g) == IF "<br />" \o GlossLines(g) = "<br />" THEN "" ELSE "<br />" \o GlossLines(g)

\* Building the sentence dict reads these attributes.
SentenceRaises(sinfo) ==
    \/ SentenceFields \ sinfo.has # { }
    \/ \E k \in 1..Len(sinfo.glossary) : GlossFields \ sinfo.glossary[k].has # { }

SentenceDict(sinfo) ==
    [id |-> PyStr(sinfo.id),
     content |-> sinfo.english,
     extra |-> "Category: " \o sinfo.category \o "<br /><br />ASL: " \o sinfo.asl
               \o "<br /><br />Glossary:<br />" \o GlossText(sinfo.glossary),
     mind |-> "",
     type |-> "sentence",
     video |-> ssbase \o "/media/mp4-" \o hq \o "/" \o sinfo.video]

NoSentence == [id |-> "", content |-> "", extra |-> "", mind |-> "", type |-> "",
               video |-> ""]

\* uri.replace("sentences/", "")
StripSentences(uri) == Join(SelectSeq(uri, LAMBDA x : x # "sentences/"))

\* The key the skip check looks up for a browse result.
SkipTag(id) == "asl::word-id::" \o id

\* ------------------------------------------------------------- state
VARIABLES
    pc,            \* where the script is
    deckNames,     \* createDecks: the deck listing
    di,            \* createDecks: position in [dWords, dSentences]
    initialWords,  \* addAllWords: the tag listing taken at its start
    li,            \* addAllWords: position in the alphabet
    results,       \* addAllWords: search results of the current letter
    ri,            \* addAllWords: position in results
    info,          \* addAllWords: detail of the current word
    vi,            \* addAllWords: i of the variants loop (zero-based)
    word,          \* addAllWords: the dict handed to addNote
    categories,    \* addAllSentences: the category listing
    ci,            \* addAllSentences: position in categories
    sresults,      \* addAllSentences: sentences of the current category
    si,            \* addAllSentences: position in sresults
    sentence,      \* addAllSentences: the dict handed to addNote
    storeDecks,    \* store: its decks
    storeTags,     \* store: its tags
    storeNotes,    \* store: the notes it accepted from the script
    browseMemo,    \* provider: what /browse/{letter} serves, once asked
    signMemo,      \* provider: what /sign/{uri} serves, once asked
    trace,         \* this run's store calls and content fetches, in order
    log,           \* this run's warnings and errors of the log file
    exc,           \* the exception that ended the run, and where it was raised
    faultsLeft,    \* faults the environment may still inject
    run,           \* number of the current run
    prevAdded      \* uris for which the previous run had a note accepted

wordVars == << deckNames, di, initialWords, li, results, ri, info, vi, word >>
sentVars == << categories, ci, sresults, si, sentence >>
progVars == << wordVars, sentVars >>
storeVars == << storeDecks, storeTags, storeNotes >>
provVars == << browseMemo, signMemo >>
vars == << pc, progVars, storeVars, provVars, trace, log, exc, faultsLeft, run,
           prevAdded >>

NoExc == [type |-> "none", at |-> ""]

InitialTagSets == SUBSET { "asl::word-id::7" }

\* The state of the script when the main block is entered.
Entry ==
    /\ pc = "createDecks"
    /\ deckNames = PyNone
    /\ di = 1
    /\ initialWords = PyNone
    /\ li = 1
    /\ results = << >>
    /\ ri = 1
    /\ info = NoDetail
    /\ vi = 0
    /\ word = NoWord
    /\ categories = << >>
    /\ ci = 1
    /\ sresults = << >>
    /\ si = 1
    /\ sentence = NoSentence
    /\ trace = << >>
    /\ log = << >>
    /\ exc = NoExc

Start(faults) ==
    /\ Entry
    /\ storeDecks \in SUBSET { dWords, dSentences }
    /\ storeTags \in InitialTagSets
    /\ storeNotes = << >>
    /\ browseMemo = [l \in 1..NumLetters |-> NoBrowse]
    /\ signMemo = [u \in Uris |-> NoDetail]
    /\ faultsLeft = faults
    /\ run = 1
    /\ prevAdded = { }

Init == Start(MaxFaults)

\* ------------------------------------------------ environment steps
Replies == { OkReply } \cup (IF faultsLeft > 0 THEN FaultReplies ELSE { })

\* How the GET of one fetch call ends: the provider answers with JSON, the
\* transport fails (requests.get raises), or the answer is not JSON (req.json()
\* raises).
FetchWays == { "ok" } \cup (IF faultsLeft > 0 THEN { "transport", "notjson" } ELSE { })

\* Mutant: a GET that failed is issued once more before giving up.
FetchRetries(way) ==
    [gets |-> IF way = "ok" THEN 1 ELSE 2, none |-> way # "ok"]

\* fetch: one requests.get inside try; whatever is raised there is swallowed by
\* the bare except, after which the function ends without a return value.
Fetch(way) == [gets |-> 1, none |-> way # "ok"]

RECURSIVE ResultsServed(_, _)
ResultsServed(memo, l) ==
    IF l = 0 THEN 0 ELSE Len(memo[l].results) + ResultsServed(memo, l - 1)

Nobody == [origin |-> << >>, pos |-> 0, front |-> FALSE]
Who(uri, p, f) == [origin |-> uri, pos |-> p, front |-> f]

\* One call of invoke: the request reaches the store, which answers resp.
\* origin, pos and front tell which search result, which position of the
\* variants sequence (1-based) and which side an addNote call was made for.
StoreCall(action, deck, note, who, resp) ==
    /\ trace' = Append(trace,
          [kind |-> "store", action |-> action, deck |-> deck, note |-> note,
           origin |-> who.origin, pos |-> who.pos, front |-> who.front,
           resp |-> resp, outcome |-> InvokeOutcome(resp)])
    /\ faultsLeft' = IF resp = OkReply THEN faultsLeft ELSE faultsLeft - 1
    /\ storeDecks' = IF Applied(resp) /\ action = "createDeck"
                       THEN storeDecks \cup { deck } ELSE storeDecks
    /\ storeNotes' = IF Applied(resp) /\ action = "addNote"
                       THEN Append(storeNotes, note) ELSE storeNotes
    /\ storeTags' = IF Applied(resp) /\ action = "addNote"
                      THEN storeTags \cup { note.tags[k] : k \in 1..Len(note.tags) }
                      ELSE storeTags

\* One call of fetch: gets counts the GETs it issued, failed tells that it
\* returned None.
FetchCall(what, arg, path, way) ==
    /\ trace' = Append(trace, [kind |-> "fetch", what |-> what, arg |-> arg,
                               path |-> path, way |-> way, gets |-> Fetch(way).gets,
                               failed |-> Fetch(way).none])
    /\ faultsLeft' = IF way = "ok" THEN faultsLeft ELSE faultsLeft - 1

\* An exception reaches the main block.
Raise(e) ==
    /\ exc' = [type |-> e, at |-> pc]
    /\ pc' = Handler(e)
    /\ log' = IF Handler(e) = "aborted"
                THEN Append(log, "ERROR Connection refused. Is Anki open and Anki Connect installed?")
                ELSE log

\* ------------------------------------------------------- createDecks
\* invoke("deckNames")
CreateDecksList ==
    /\ pc = "createDecks"
    /\ \E resp \in Replies :
        /\ StoreCall("deckNames", "", NoNote, Nobody, resp)
        /\ IF InvokeOutcome(resp) = "return"
             THEN /\ deckNames' = InvokeResult(resp, storeDecks)
                  /\ di' = 1
                  /\ pc' = "createDeck"
                  /\ UNCHANGED << log, exc >>
             ELSE /\ Raise(InvokeOutcome(resp))
                  /\ UNCHANGED << deckNames, di >>
    /\ UNCHANGED << initialWords, li, results, ri, info, vi, word, sentVars,
                    provVars, run, prevAdded >>

\* Mutant: the test is inverted.
DeckExistsInverted(deck, names) == deck \notin names

\* `deck in deckNames`
DeckExists(deck, names) == deck \in names

\* Mutant: after the last deck the script goes straight to the letters.
AfterDeckSkipsTags(d) == IF d < Len(Decks) THEN "createDeck" ELSE "browse"

\* After the deck at position d: the next deck, or createDecks returns.
AfterDeck(d) == IF d < Len(Decks) THEN "createDeck" ELSE "getTags"

\* One pass of the loop over [dWords, dSentences].
CreateDeck ==
    /\ pc = "createDeck"
    /\ LET deck == Decks[di] IN
       IF deckNames.none
         THEN \* `deck in None` raises TypeError, which the try does not catch
              /\ Raise("TypeError")
              /\ UNCHANGED << di, trace, faultsLeft, storeVars >>
         ELSE IF DeckExists(deck, deckNames.val)
         THEN \* FileExistsError, caught in the loop
              /\ log' = Append(log, "WARNING Failed to create " \o deck \o ". Already exists.")
              /\ di' = di + 1
              /\ pc' = AfterDeck(di)
              /\ UNCHANGED << exc, trace, faultsLeft, storeVars >>
         ELSE \E resp \in Replies :
              /\ StoreCall("createDeck", deck, NoNote, Nobody, resp)
              /\ IF InvokeOutcome(resp) = "return"
                   THEN /\ di' = di + 1
                        /\ pc' = AfterDeck(di)
                        /\ UNCHANGED << log, exc >>
                   ELSE /\ Raise(InvokeOutcome(resp))
                        /\ UNCHANGED di
    /\ UNCHANGED << deckNames, initialWords, li, results, ri, info, vi, word,
                    sentVars, provVars, run, prevAdded >>

\* ------------------------------------------------------- addAllWords
\* initialWords = invoke(action="getTags")
GetTags ==
    /\ pc = "getTags"
    /\ \E resp \in Replies :
        /\ StoreCall("getTags", "", NoNote, Nobody, resp)
        /\ IF InvokeOutcome(resp) = "return"
             THEN /\ initialWords' = InvokeResult(resp, storeTags)
                  /\ li' = 1
                  /\ pc' = "browse"
                  /\ UNCHANGED << log, exc >>
             ELSE /\ Raise(InvokeOutcome(resp))
                  /\ UNCHANGED << initialWords, li >>
    /\ UNCHANGED << deckNames, di, results, ri, info, vi, word, sentVars, provVars,
                    run, prevAdded >>

BrowsePath(l) == base \o ":" \o port \o "/browse/" \o Letters[l]
SignPath(uri) == base \o ":" \o port \o "/sign/" \o Join(uri)

\* results = parse(fetch(.../browse/{letter})).signs.search_results
Browse ==
    /\ pc = "browse"
    /\ li <= NumLetters
    /\ \E way \in FetchWays : LET failed == Fetch(way).none IN
        /\ FetchCall("browse", li, BrowsePath(li), way)
        /\ IF failed
             THEN \* parse(None): json.loads raises TypeError
                  /\ Raise("TypeError")
                  /\ UNCHANGED << results, ri, browseMemo >>
             ELSE \E p \in IF browseMemo[li].asked THEN { browseMemo[li] }
                           ELSE BrowsePayloads(MaxResults
                                               - ResultsServed(browseMemo, NumLetters)) :
                  /\ browseMemo' = [browseMemo EXCEPT ![li] = p]
                  /\ IF p.signs
                       THEN /\ results' = p.results
                            /\ ri' = 1
                            /\ pc' = "results"
                            /\ UNCHANGED << log, exc >>
                       ELSE /\ Raise("AttributeError")
                            /\ UNCHANGED << results, ri >>
    /\ UNCHANGED << deckNames, di, initialWords, li, info, vi, word, sentVars,
                    storeVars, signMemo, run, prevAdded >>

\* The loop over results is exhausted: the next letter.
BucketDone ==
    /\ pc = "results"
    /\ ri > Len(results)
    /\ li' = li + 1
    /\ pc' = "browse"
    /\ UNCHANGED << deckNames, di, initialWords, results, ri, info, vi, word,
                    sentVars, storeVars, provVars, trace, log, exc, faultsLeft, run,
                    prevAdded >>

\* Mutant: the bare id is looked up instead of the tag.
SkipsBareId(id, tags) == id \in tags

\* `f"asl::word-id::{id}" in initialWords`
Skips(id, tags) == SkipTag(id) \in tags

\* One pass of the loop over results, up to the loop over the variants.
NextResult ==
    /\ pc = "results"
    /\ ri <= Len(results)
    /\ LET uri == results[ri].uri
           ids == FindallTrailingDigits(uri)
       IN
       IF ids = << >>
         THEN \* re.findall(...)[0] on an empty list
              /\ Raise("IndexError")
              /\ UNCHANGED << ri, info, vi, trace, faultsLeft, signMemo >>
         ELSE IF initialWords.none
         THEN \* `in None`
              /\ Raise("TypeError")
              /\ UNCHANGED << ri, info, vi, trace, faultsLeft, signMemo >>
         ELSE IF Skips(ids[1], initialWords.val)
         THEN \* continue
              /\ ri' = ri + 1
              /\ UNCHANGED << pc, info, vi, trace, log, exc, faultsLeft, signMemo >>
         ELSE \E way \in FetchWays : LET failed == Fetch(way).none IN
              /\ FetchCall("sign", uri, SignPath(uri), way)
              /\ IF failed
                   THEN /\ Raise("TypeError")
                        /\ UNCHANGED << ri, info, vi, signMemo >>
                   ELSE \E d \in IF signMemo[uri].asked THEN { signMemo[uri] }
                                 ELSE DetailPayloads :
                        /\ signMemo' = [signMemo EXCEPT ![uri] = d]
                        /\ info' = d
                        /\ IF "variants" \in d.has
                             THEN /\ vi' = 0
                                  /\ pc' = "variants"
                                  /\ UNCHANGED << ri, log, exc >>
                             ELSE /\ Raise("AttributeError")
                                  /\ UNCHANGED << ri, vi >>
    /\ UNCHANGED << deckNames, di, initialWords, li, results, word, sentVars,
                    storeVars, browseMemo, run, prevAdded >>

\* range(len(info.variants) - 1) is exhausted: the next result.
VariantsDone ==
    /\ pc = "variants"
    /\ vi \notin VariantRange(info)
    /\ ri' = ri + 1
    /\ pc' = "results"
    /\ UNCHANGED << deckNames, di, initialWords, li, results, info, vi, word,
                    sentVars, storeVars, provVars, trace, log, exc, faultsLeft, run,
                    prevAdded >>

\* The body of the variants loop up to the first addNote: usage and word.
BuildVariant ==
    /\ pc = "variants"
    /\ vi \in VariantRange(info)
    /\ IF WordRaises(info, vi)
         THEN /\ Raise("AttributeError")
              /\ UNCHANGED word
         ELSE /\ word' = WordDict(info, vi)
              /\ pc' = "addFront"
              /\ UNCHANGED << log, exc >>
    /\ UNCHANGED << deckNames, di, initialWords, li, results, ri, info, vi,
                    sentVars, storeVars, provVars, trace, faultsLeft, run, prevAdded >>

\* addNote(options, word, dWords, front=True)
AddFront ==
    /\ pc = "addFront"
    /\ IF AddNoteRaises(word)
         THEN /\ Raise("KeyError")
              /\ UNCHANGED << trace, faultsLeft, storeVars >>
         ELSE \E resp \in Replies :
              /\ StoreCall("addNote", dWords, Note(Options(dWords), word, dWords, TRUE),
                           Who(results[ri].uri, vi + 1, TRUE), resp)
              /\ IF InvokeOutcome(resp) = "return"
                   THEN pc' = "addBack" /\ UNCHANGED << log, exc >>
                   ELSE Raise(InvokeOutcome(resp))
    /\ UNCHANGED << progVars, provVars, run, prevAdded >>

\* Mutant: the tags of a note the store accepted are added to initialWords.
AddBackRefreshesTags ==
    /\ pc = "addBack"
    /\ IF AddNoteRaises(word)
         THEN /\ Raise("KeyError")
              /\ UNCHANGED << vi, initialWords, trace, faultsLeft, storeVars >>
         ELSE \E resp \in Replies :
              /\ StoreCall("addNote", dWords, Note(Options(dWords), word, dWords, FALSE),
                           Who(results[ri].uri, vi + 1, FALSE), resp)
              /\ initialWords' = IF Applied(resp) /\ ~initialWords.none
                                   THEN Some(initialWords.val
                                             \cup { IdTag(word), VariantTag(word) })
                                   ELSE initialWords
              /\ IF InvokeOutcome(resp) = "return"
                   THEN /\ vi' = vi + 1
                        /\ pc' = "variants"
                        /\ UNCHANGED << log, exc >>
                   ELSE /\ Raise(InvokeOutcome(resp))
                        /\ UNCHANGED vi
    /\ UNCHANGED << deckNames, di, li, results, ri, info, word, sentVars, provVars,
                    run, prevAdded >>

\* addNote(options, word, dWords, front=False)
AddBack ==
    /\ pc = "addBack"
    /\ IF AddNoteRaises(word)
         THEN /\ Raise("KeyError")
              /\ UNCHANGED << vi, trace, faultsLeft, storeVars >>
         ELSE \E resp \in Replies :
              /\ StoreCall("addNote", dWords, Note(Options(dWords), word, dWords, FALSE),
                           Who(results[ri].uri, vi + 1, FALSE), resp)
              /\ IF InvokeOutcome(resp) = "return"
                   THEN /\ vi' = vi + 1
                        /\ pc' = "variants"
                        /\ UNCHANGED << log, exc >>
                   ELSE /\ Raise(InvokeOutcome(resp))
                        /\ UNCHANGED vi
    /\ UNCHANGED << deckNames, di, initialWords, li, results, ri, info, word,
                    sentVars, provVars, run, prevAdded >>

\* addAllWords returns; the main block goes on to addAllSentences
\* (src/anki.py).
WordsReturnToSentences ==
    /\ pc = "browse"
    /\ li > NumLetters
    /\ pc' = "sentences"
    /\ UNCHANGED << progVars, storeVars, provVars, trace, log, exc, faultsLeft, run,
                    prevAdded >>

\* addAllWords returns; the call of addAllSentences is commented out and init
\* returns (src/src/signingsavvy_anki/anki.py).
WordsReturnToEnd ==
    /\ pc = "browse"
    /\ li > NumLetters
    /\ pc' = "done"
    /\ UNCHANGED << progVars, storeVars, provVars, trace, log, exc, faultsLeft, run,
                    prevAdded >>

\* --------------------------------------------------- addAllSentences
SentencesPath == base \o ":" \o port \o "/sentences"
CategoryPath(c) == base \o ":" \o port \o "/sentences/" \o c
SentencePath(uri) == base \o ":" \o port \o "/sentence/" \o uri

\* categories = parse(fetch(.../sentences)).categories
FetchCategories ==
    /\ pc = "sentences"
    /\ \E way \in FetchWays : LET failed == Fetch(way).none IN
        /\ FetchCall("sentences", "", SentencesPath, way)
        /\ IF failed
             THEN /\ Raise("TypeError")
                  /\ UNCHANGED << categories, ci >>
             ELSE \E p \in CategoriesPayloads :
                  IF "categories" \in p.has
                    THEN /\ categories' = p.categories
                         /\ ci' = 1
                         /\ pc' = "category"
                         /\ UNCHANGED << log, exc >>
                    ELSE /\ Raise("AttributeError")
                         /\ UNCHANGED << categories, ci >>
    /\ UNCHANGED << wordVars, sresults, si, sentence, storeVars, provVars, run,
                    prevAdded >>

\* results = parse(fetch(.../sentences/{category})).categories
FetchCategory ==
    /\ pc = "category"
    /\ ci <= Len(categories)
    /\ \E way \in FetchWays : LET failed == Fetch(way).none IN
        /\ FetchCall("category", categories[ci], CategoryPath(categories[ci]), way)
        /\ IF failed
             THEN /\ Raise("TypeError")
                  /\ UNCHANGED << sresults, si >>
             ELSE \E p \in CategoryPayloads :
                  IF "categories" \in p.has
                    THEN /\ sresults' = p.categories
                         /\ si' = 1
                         /\ pc' = "sentence"
                         /\ UNCHANGED << log, exc >>
                    ELSE /\ Raise("AttributeError")
                         /\ UNCHANGED << sresults, si >>
    /\ UNCHANGED << wordVars, categories, ci, sentence, storeVars, provVars, run,
                    prevAdded >>

\* The loop over categories is exhausted: addAllSentences returns.
SentencesReturn ==
    /\ pc = "category"
    /\ ci > Len(categories)
    /\ pc' = "done"
    /\ UNCHANGED << progVars, storeVars, provVars, trace, log, exc, faultsLeft, run,
                    prevAdded >>

\* The loop over a category's sentences is exhausted: the next category.
CategoryDone ==
    /\ pc = "sentence"
    /\ si > Len(sresults)
    /\ ci' = ci + 1
    /\ pc' = "category"
    /\ UNCHANGED << wordVars, categories, sresults, si, sentence, storeVars,
                    provVars, trace, log, exc, faultsLeft, run, prevAdded >>

\* One pass of the loop over a category's sentences, up to the first addNote.
FetchSentence ==
    /\ pc = "sentence"
    /\ si <= Len(sresults)
    /\ \E way \in FetchWays : LET failed == Fetch(way).none IN
        /\ FetchCall("sentence", sresults[si].uri,
                     SentencePath(StripSentences(sresults[si].uri)), way)
        /\ IF failed
             THEN /\ Raise("TypeError")
                  /\ UNCHANGED sentence
             ELSE \E d \in SentencePayloads :
                  IF SentenceRaises(d)
                    THEN /\ Raise("AttributeError")
                         /\ UNCHANGED sentence
                    ELSE /\ sentence' = SentenceDict(d)
                         /\ pc' = "addSentenceFront"
                         /\ UNCHANGED << log, exc >>
    /\ UNCHANGED << wordVars, categories, ci, sresults, si, storeVars, provVars,
                    run, prevAdded >>

\* addNote(options, sentence, dSentences, front=True). The second call, with
\* front=False, follows at "addSentenceBack" when this one returns.
AddSentenceFront ==
    /\ pc = "addSentenceFront"
    /\ IF AddNoteRaises(sentence)
         THEN /\ Raise("KeyError")
              /\ UNCHANGED << trace, faultsLeft, storeVars >>
         ELSE \E resp \in Replies :
              /\ StoreCall("addNote", dSentences,
                           Note(Options(dSentences), sentence, dSentences, TRUE),
                           Who(sresults[si].uri, 0, TRUE), resp)
              /\ IF InvokeOutcome(resp) = "return"
                   THEN pc' = "addSentenceBack" /\ UNCHANGED << log, exc >>
                   ELSE Raise(InvokeOutcome(resp))
    /\ UNCHANGED << progVars, provVars, run, prevAdded >>

\* ------------------------------------------------------------- runs
Ended == pc \in { "done", "aborted", "crashed" }

AddNoteEvent(e) == e.kind = "store" /\ e.action = "addNote"

\* Uris of the words for which this run had a note accepted by the store.
AddedUris ==
    { trace[k].origin : k \in { j \in 1..Len(trace) :
                                  AddNoteEvent(trace[j]) /\ Applied(trace[j].resp) } }

\* The operator starts the script again: the store and the content provider
\* are as the previous run left them.
Rerun ==
    /\ Ended
    /\ run < MaxRuns
    /\ run' = run + 1
    /\ prevAdded' = AddedUris
    /\ pc' = "createDecks"
    /\ deckNames' = PyNone
    /\ di' = 1
    /\ initialWords' = PyNone
    /\ li' = 1
    /\ results' = << >>
    /\ ri' = 1
    /\ info' = NoDetail
    /\ vi' = 0
    /\ word' = NoWord
    /\ categories' = << >>
    /\ ci' = 1
    /\ sresults' = << >>
    /\ si' = 1
    /\ sentence' = NoSentence
    /\ trace' = << >>
    /\ log' = << >>
    /\ exc' = NoExc
    /\ UNCHANGED << storeVars, provVars, faultsLeft >>

Next ==
    \/ CreateDecksList
    \/ CreateDeck
    \/ GetTags
    \/ Browse
    \/ BucketDone
    \/ NextResult
    \/ VariantsDone
    \/ BuildVariant
    \/ AddFront
    \/ AddBack
    \/ WordsReturnToSentences
    \/ WordsReturnToEnd
    \/ FetchCategories
    \/ FetchCategory
    \/ SentencesReturn
    \/ CategoryDone
    \/ FetchSentence
    \/ AddSentenceFront

Spec == Init /\ [][Next]_vars

\* Two runs in sequence against a store and a network without faults.
InitHealthy == Start(0)

NextRerun == Next \/ Rerun

SpecRerun == InitHealthy /\ [][NextRerun]_vars

\* A run against a provider that lists two words, of ids 7 and 71, each with
\* few or with many variants; the store and the network are without faults.
MediaUris == { << "A", "/", "7" >>, << "D", "/", "7", "1" >> }

MediaLens == { 2, MaxMediaVariants }

MediaListing ==
    [asked |-> TRUE, signs |-> TRUE,
     results |-> << SearchResult(<< "A", "/", "7" >>),
                    SearchResult(<< "D", "/", "7", "1" >>) >>]

InitMedia ==
    /\ Entry
    /\ storeDecks \in SUBSET { dWords, dSentences }
    /\ storeTags = { }
    /\ storeNotes = << >>
    /\ browseMemo = [l \in 1..NumLetters |->
                        IF l = 1 THEN MediaListing
                        ELSE [asked |-> TRUE, signs |-> TRUE, results |-> << >>]]
    /\ \E n \in MediaLens, m \in MediaLens :
          signMemo = [u \in MediaUris |->
                        IF u = << "A", "/", "7" >>
                          THEN WordDetail(DetailFields, 7, GoodList(n))
                          ELSE WordDetail(DetailFields, 71, GoodList(m))]
    /\ faultsLeft = 0
    /\ run = 1
    /\ prevAdded = { }

SpecMedia == InitMedia /\ [][Next]_vars

\* =============================================================== claims
\* Reading the history of the run.
StoreEvent(e) == e.kind = "store"
FetchEvent(e, what) == e.kind = "fetch" /\ e.what = what
WordNoteEvent(e) == AddNoteEvent(e) /\ e.deck = dWords

\* The trace positions that satisfy Test.
Positions(Test(_)) == { k \in 1..Len(trace) : Test(trace[k]) }

IsSignFetch(e) == FetchEvent(e, "sign")

\* Position of the latest word detail fetch, 0 before the first one.
LastSignFetch ==
    IF Positions(IsSignFetch) = { } THEN 0
    ELSE CHOOSE k \in Positions(IsSignFetch) : \A j \in Positions(IsSignFetch) : j <= k

\* The addNote calls made for the word fetched last, as << position, side >>.
WordNotes ==
    LET after == SelectSeq(SubSeq(trace, LastSignFetch + 1, Len(trace)), WordNoteEvent)
    IN [k \in 1..Len(after) |-> << after[k].pos, after[k].front >>]

IsPrefix(a, b) == Len(a) <= Len(b) /\ SubSeq(b, 1, Len(a)) = a

\* The word id a browse uri stands for, read off the uris the provider serves.
IdOfUri(uri) ==
    IF uri = << "A", "/", "7" >> THEN "7"
    ELSE IF uri = << "B", "/", "1", "2" >> THEN "12"
    ELSE ""

\* The uri's word is tagged in the tag listing taken at the start of addAllWords.
Listed(uri) ==
    /\ ~initialWords.none
    /\ IdOfUri(uri) # ""
    /\ ("asl::word-id::" \o IdOfUri(uri)) \in initialWords.val

\* C1: two-run idempotence. With an unchanged provider and a store that keeps
\* the tags of every note it was sent, the second run issues no addNote call
\* for a word for which the first run added notes.
C1_SecondRunAddsNothing ==
    run >= 2 =>
        \A k \in Positions(WordNoteEvent) : trace[k].origin \notin prevAdded

\* C2: a browse result whose word-id tag is in the tag listing taken at the
\* start of addAllWords gets no detail fetch and no addNote call.
C2_ListedWordIsSkipped ==
    \A k \in 1..Len(trace) :
        /\ IsSignFetch(trace[k]) => ~Listed(trace[k].arg)
        /\ WordNoteEvent(trace[k]) => ~Listed(trace[k].origin)

\* C2 witness: the loop has passed over a listed result and gone on.
C2_Witness ==
    /\ pc = "results"
    /\ ri = 3
    /\ Listed(results[1].uri)
    /\ ~Listed(results[2].uri)
    /\ Positions(IsSignFetch) # { }

\* The calls the claim expects for a word with n variants: front then back for
\* positions 1..n-1, in order.
ExpectedNotes(n) ==
    [k \in 1..(2 * (n - 1)) |-> << (k + 1) \div 2, k % 2 = 1 >>]

\* C3: of a word with n >= 1 variants that is not skipped, exactly the
\* positions 1..n-1 are processed, in order; the last variant never produces a
\* note, and with n = 1 no addNote call is issued.
C3_AllButLastVariant ==
    LET n == Len(info.variants) IN
    /\ IsPrefix(WordNotes, IF n >= 1 THEN ExpectedNotes(n) ELSE << >>)
    /\ (pc = "results" /\ ri > 1 /\ ~Listed(results[ri - 1].uri) /\ n >= 1)
          => WordNotes = ExpectedNotes(n)

\* C3 witness: a word with three variants has been processed to the end.
C3_Witness ==
    /\ pc = "results"
    /\ ri > 1
    /\ ~Listed(results[ri - 1].uri)
    /\ Len(info.variants) = 3
    /\ WordNotes = << << 1, TRUE >>, << 1, FALSE >>, << 2, TRUE >>, << 2, FALSE >> >>

\* The addNote calls of the word phase, in the order they were issued.
WordNoteCalls == SelectSeq(trace, WordNoteEvent)

HasMedia(note) == note.video # << >>
HasPlaceholder(note) == note.fields.Front = "Video: " \/ note.fields.Back = "Video: "

\* C4 as stated: the two notes of a processed variant are a front and a back
\* note, of which exactly one carries the media attachment and the other the
\* placeholder text "Video: ".
C4_OneMediaOnePlaceholder ==
    \A j \in 1..(Len(WordNoteCalls) \div 2) :
        LET f == WordNoteCalls[2 * j - 1].note
            b == WordNoteCalls[2 * j].note
        IN \/ HasMedia(f) /\ ~HasMedia(b) /\ HasPlaceholder(b) /\ ~HasPlaceholder(f)
           \/ HasMedia(b) /\ ~HasMedia(f) /\ HasPlaceholder(f) /\ ~HasPlaceholder(b)

\* C4 amended: every variant whose processing completes has exactly two notes
\* sent, the front one then the back one; both carry one media attachment,
\* the front note's on its Back field and the back note's on its Front field,
\* and only the back note carries the placeholder "Video: ", as its Front.
C4_PairBothWithMedia ==
    /\ \A k \in 1..Len(WordNoteCalls) :
        LET e == WordNoteCalls[k] IN
        /\ e.front = (k % 2 = 1)
        /\ Len(e.note.video) = 1
        /\ e.note.video[1].fields = << IF e.front THEN "Back" ELSE "Front" >>
        /\ (e.note.fields.Front = "Video: ") = ~e.front
        /\ e.note.fields.Back # "Video: "
        /\ k % 2 = 0 =>
             /\ e.origin = WordNoteCalls[k - 1].origin
             /\ e.pos = WordNoteCalls[k - 1].pos
             /\ e.note.tags = WordNoteCalls[k - 1].note.tags
             /\ e.note.video[1].url = WordNoteCalls[k - 1].note.video[1].url
    /\ (exc = NoExc /\ pc # "addBack") => Len(WordNoteCalls) % 2 = 0

\* C4 witness: the first variant of a word has been processed.
C4_Witness ==
    /\ pc = "variants"
    /\ vi = 1
    /\ Len(WordNoteCalls) = 2

\* The fetch at position k of the trace gave no payload, or one without the
\* top-level structure the caller reads.
BadFetch(k) ==
    LET e == trace[k] IN
    /\ e.kind = "fetch"
    /\ e.what \in { "browse", "sign" }
    /\ \/ e.failed
       \/ e.what = "browse" /\ ~browseMemo[e.arg].signs
       \/ e.what = "sign" /\ "variants" \notin signMemo[e.arg].has

\* C5: a failed fetch or a payload invalid at the top level, for a letter
\* bucket or a word detail, abandons that item only: it never ends the run.
C5_BadFetchAbandonsItemOnly ==
    \A k \in 1..Len(trace) : BadFetch(k) => ~(pc = "crashed" /\ k = Len(trace))

\* C6: a word record that fails to parse produces no card: when a variant of
\* the processed range or the record lacks a required field, no addNote call
\* at all has been issued for that word.
C6_UnparsableWordHasNoCards ==
    (exc.type = "AttributeError" /\ exc.at \in { "results", "variants" })
        => WordNotes = << >>

\* C7: a store call returns only when the envelope has exactly the keys error
\* and result; any other envelope raises, the run ends there and no store
\* call (nor fetch) follows it.
C7_EnvelopeChecked ==
    \A k \in Positions(StoreEvent) :
        LET e == trace[k] IN
        /\ e.outcome = "return" => e.resp.keys = { "error", "result" }
        /\ (~e.resp.refused /\ e.resp.keys # { "error", "result" })
              => /\ e.outcome # "return"
                 /\ k = Len(trace)
                 /\ pc = "crashed"
                 /\ exc.type = e.outcome

\* C7 witness: an addNote answered with an extra key ended the run.
C7_Witness ==
    /\ pc = "crashed"
    /\ trace # << >>
    /\ WordNoteEvent(trace[Len(trace)])
    /\ trace[Len(trace)].resp.keys = { "error", "result", "extra" }

\* The notes the store accepted in this run, in order.
AcceptedNote(e) == AddNoteEvent(e) /\ Applied(e.resp)
AcceptedNotes ==
    LET acc == SelectSeq(trace, AcceptedNote) IN [k \in 1..Len(acc) |-> acc[k].note]

RefusedMessage == "ERROR Connection refused. Is Anki open and Anki Connect installed?"

\* C8: a store call that is refused ends the run in the aborted state with
\* the diagnostic logged; nothing is called or fetched after it, no deck is
\* deleted, and the notes added before it are still in the store.
C8_RefusedAborts ==
    /\ \A k \in Positions(StoreEvent) :
          /\ trace[k].action # "deleteDecks"
          /\ trace[k].resp.refused
                => /\ k = Len(trace)
                   /\ pc = "aborted"
                   /\ log # << >> /\ log[Len(log)] = RefusedMessage
    /\ run = 1 => storeNotes = AcceptedNotes

\* C8 witness: the store refused an addNote after it had accepted two notes.
C8_Witness ==
    /\ pc = "aborted"
    /\ Len(storeNotes) = 2
    /\ WordNoteEvent(trace[Len(trace)])
    /\ trace[Len(trace)].resp.refused

IsDeckNames(e) == StoreEvent(e) /\ e.action = "deckNames"
CreateCalls(d) ==
    Cardinality({ k \in Positions(StoreEvent) :
                    trace[k].action = "createDeck" /\ trace[k].deck = d })
DeckListed(d) == ~deckNames.none /\ d \in deckNames.val
Warned(d) ==
    \E k \in 1..Len(log) : log[k] = "WARNING Failed to create " \o d \o ". Already exists."
CreateDecksReturned ==
    /\ pc \notin { "createDecks", "createDeck" }
    /\ exc.at \notin { "createDecks", "createDeck" }

\* C9: createDecks lists the decks once; createDeck is issued once for a deck
\* that is not in the listing and never for one that is; a deck that exists
\* is logged as a warning and the run goes on with the other deck and the
\* word sync.
C9_CreateOnlyAbsentDecks ==
    /\ Cardinality(Positions(IsDeckNames)) <= 1
    /\ \A k \in Positions(StoreEvent) :
          trace[k].action = "createDeck" => k > 1 /\ IsDeckNames(trace[1])
    /\ \A d \in { dWords, dSentences } :
          /\ CreateCalls(d) <= 1
          /\ DeckListed(d) => CreateCalls(d) = 0
          /\ Warned(d) => DeckListed(d)
          /\ CreateDecksReturned =>
                /\ CreateCalls(d) = IF DeckListed(d) THEN 0 ELSE 1
                /\ Warned(d) <=> DeckListed(d)

\* C9 witness: the words deck existed, the sentences deck was created, and the
\* run has reached the word sync.
C9_Witness ==
    /\ pc = "getTags"
    /\ DeckListed(dWords)
    /\ Warned(dWords)
    /\ ~DeckListed(dSentences)
    /\ CreateCalls(dSentences) = 1

\* The usage text when an example that lacks a field is dropped whole.
ClaimedExampleText(e) ==
    IF ExampleFields \subseteq e.has
      THEN "English: " \o e.english \o "<br />" \o "ASL: " \o e.asl \o "<br /><br />"
      ELSE ""

RECURSIVE ClaimedUsageText(_)
ClaimedUsageText(us) ==
    IF us = << >> THEN ""
    ELSE ClaimedExampleText(us[1]) \o ClaimedUsageText(Tail(us))

\* C10: a usage example without its asl field adds nothing to the usage text,
\* the other examples are kept in order, and both cards are built and sent.
C10_ExampleWithoutAslDropped ==
    \A k \in Positions(WordNoteEvent) :
        LET e == trace[k]
            detail == signMemo[e.origin]
            variant == detail.variants[e.pos]
            claimed == [WordDict(detail, e.pos - 1) EXCEPT
                          !.extra = "Description: " \o variant.desc
                                    \o "<br /><br />Type: " \o variant.type
                                    \o "<br /><br />Usage:<br />"
                                    \o ClaimedUsageText(variant.usage)]
        IN e.note = Note(Options(dWords), claimed, dWords, e.front)

SentenceNoteEvent(e) == AddNoteEvent(e) /\ e.deck = dSentences

\* The addNote calls of the sentence phase, in the order they were issued.
SentenceNoteCalls == SelectSeq(trace, SentenceNoteEvent)

\* C11: a sentence whose detail was fetched and built gets two notes in the
\* sentences deck, a front and a back one, each tagged asl::sentence-id::{id}
\* and with no variant-id tag, unless the store itself ended the run.
C11_SentenceGetsTwoNotes ==
    (/\ sentence # NoSentence
     /\ pc \notin { "addSentenceFront", "addSentenceBack" }
     /\ exc.type \in { "none", "KeyError", "TypeError", "AttributeError" })
        => /\ Len(SentenceNoteCalls) >= 2
           /\ \A k \in 1..Len(SentenceNoteCalls) :
                 SentenceNoteCalls[k].note.tags = << "asl::sentence-id::" \o sentence.id >>

IsFetch(e) == e.kind = "fetch"

\* C12: every call of fetch issues one GET and no second one; when the
\* transport fails or the answer is not JSON the call returns None to its
\* caller: what ends the run is the caller's parse(None), a TypeError raised
\* where the caller stands, and nothing is fetched after it.
C12_FetchOnceNoRaise ==
    \A k \in Positions(IsFetch) :
        LET e == trace[k] IN
        /\ e.gets = 1
        /\ e.failed <=> e.way # "ok"
        /\ e.way # "ok" =>
              /\ k = Len(trace)
              /\ exc.type = "TypeError"
              /\ exc.at \in { "browse", "results", "sentences", "category", "sentence" }

\* C12 witness: a word detail answered with something that is not JSON, after
\* a browse listing was fetched.
C12_Witness ==
    /\ Len(trace) >= 2
    /\ IsSignFetch(trace[Len(trace)])
    /\ trace[Len(trace)].way = "notjson"
    /\ \E k \in Positions(IsFetch) : trace[k].what = "browse" /\ trace[k].way = "ok"

\* The phase a call of the trace belongs to: 1 decks, 2 tag listing, 3 words,
\* 4 sentences.
Phase(e) ==
    IF StoreEvent(e)
      THEN IF e.action \in { "deckNames", "createDeck" } THEN 1
           ELSE IF e.action = "getTags" THEN 2
           ELSE IF e.deck = dWords THEN 3 ELSE 4
      ELSE IF e.what \in { "browse", "sign" } THEN 3 ELSE 4

IsGetTags(e) == StoreEvent(e) /\ e.action = "getTags"
IsSentencesFetch(e) == FetchEvent(e, "sentences")

\* C13: the calls of a run come phase by phase and no phase is entered again:
\* one deck listing first, then the createDeck calls, then one getTags, then
\* the fetches and addNote calls of the words, then those of the sentences,
\* which start with the one fetch of the category listing; a run that ended
\* without that fetch made no sentence call at all.
C13_LinearPhases ==
    /\ \A k \in 1..(Len(trace) - 1) : Phase(trace[k]) <= Phase(trace[k + 1])
    /\ Cardinality(Positions(IsDeckNames)) <= 1
    /\ Cardinality(Positions(IsGetTags)) <= 1
    /\ Cardinality(Positions(IsSentencesFetch)) <= 1
    /\ \A k \in 1..Len(trace) :
          /\ k > 1 => IsDeckNames(trace[1])
          /\ Phase(trace[k]) >= 3 => \E j \in 1..(k - 1) : IsGetTags(trace[j])
          /\ Phase(trace[k]) = 4 =>
                \E j \in 1..k : /\ IsSentencesFetch(trace[j])
                                /\ \A i \in 1..(j - 1) : Phase(trace[i]) < 4
    /\ (pc = "done" /\ Positions(IsSentencesFetch) = { }) =>
          /\ trace # << >>
          /\ Phase(trace[Len(trace)]) \in { 2, 3 }
          /\ li = NumLetters + 1

\* C13 witness: a run went through all four phases to its end.
C13_Witness ==
    /\ pc = "done"
    /\ \E k \in Positions(StoreEvent) : trace[k].action = "createDeck"
    /\ Positions(WordNoteEvent) # { }
    /\ \E k \in 1..Len(trace) : FetchEvent(trace[k], "category")

\* The ids the skip check may be asked about.
SkipIds == { "7", "12" }

\* C14: the tag listing is taken by one getTags call and then left alone: no
\* step other than that call changes initialWords, whatever the store has
\* accepted meanwhile, so that the skip check answers the same for every id
\* from then on.
C14_SnapshotFrozen ==
    /\ [](Cardinality(Positions(IsGetTags)) <= 1)
    /\ [][/\ pc # "getTags" => initialWords' = initialWords
          /\ (~initialWords.none /\ ~initialWords'.none) =>
                \A id \in SkipIds :
                    Skips(id, initialWords'.val) <=> Skips(id, initialWords.val)]_vars

\* C14 witness: the store has accepted the notes of a word whose tag the
\* listing does not hold, and the loop has come to the next search result.
C14_Witness ==
    /\ pc = "results"
    /\ ri = 2
    /\ ~initialWords.none
    /\ \E k \in Positions(AcceptedNote) :
          /\ trace[k].note.tags[1] \in storeTags
          /\ trace[k].note.tags[1] \notin initialWords.val

\* C15: within one run no (word id, variant index) gets a second front note
\* or a second back note, whatever the letter buckets list.
C15_NoWithinRunDuplicates ==
    \A i, j \in Positions(WordNoteEvent) :
        (i < j /\ trace[i].front = trace[j].front)
            => trace[i].note.tags # trace[j].note.tags

\* Decimal numerals of the numbers the claims speak of, written out.
Numeral(n) ==
    CASE n = 1 -> "1" [] n = 2 -> "2" [] n = 3 -> "3" [] n = 4 -> "4"
      [] n = 5 -> "5" [] n = 6 -> "6" [] n = 7 -> "7" [] n = 8 -> "8"
      [] n = 9 -> "9" [] n = 12 -> "12" [] OTHER -> "?"

\* C16: the notes of a word variant, first the front then the back one, carry
\* the same two tags, asl::word-id::{id} with the id of the word's detail and
\* asl::word-variant-id::{k} with k the variant's 1-based position; the
\* variants of a word are sent in increasing k, starting at 1.
C16_TagsAndOrder ==
    LET calls == WordNoteCalls IN
    \A k \in 1..Len(calls) :
        LET e == calls[k]
            detail == signMemo[e.origin]
        IN
        /\ e.pos \in 1..Len(detail.variants)
        /\ e.note.tags = << "asl::word-id::" \o Numeral(detail.id),
                            "asl::word-variant-id::" \o Numeral(e.pos) >>
        /\ ~e.front => /\ k > 1
                       /\ calls[k - 1].front
                       /\ calls[k - 1].origin = e.origin
                       /\ calls[k - 1].pos = e.pos
        /\ (e.front /\ e.pos > 1) => /\ k > 1
                                     /\ ~calls[k - 1].front
                                     /\ calls[k - 1].origin = e.origin
                                     /\ calls[k - 1].pos = e.pos - 1

\* C16 witness: the second variant of word 12 has had both its notes sent.
C16_Witness ==
    /\ Len(WordNoteCalls) = 4
    /\ ~WordNoteCalls[4].front
    /\ WordNoteCalls[3].note.tags = << "asl::word-id::12", "asl::word-variant-id::2" >>
    /\ WordNoteCalls[4].note.tags = << "asl::word-id::12", "asl::word-variant-id::2" >>

\* C17: two notes of a run that are for different (word id, variant index)
\* pairs never name the same media file.
C17_DistinctFilenames ==
    LET calls == WordNoteCalls IN
    \A i, j \in 1..Len(calls) :
        calls[i].note.video[1].filename = calls[j].note.video[1].filename
            => /\ signMemo[calls[i].origin].id = signMemo[calls[j].origin].id
               /\ calls[i].pos = calls[j].pos

\* A well-formed answer of the store whose error slot is not null.
Rejected(e) ==
    /\ StoreEvent(e)
    /\ ~e.resp.refused
    /\ e.resp.keys = { "error", "result" }
    /\ e.resp.error

\* The run was ended by the use of a listing that a rejected call returned
\* as None.
EndedByNoneResult ==
    /\ pc = "crashed"
    /\ exc.type = "TypeError"
    /\ \/ exc.at = "createDeck" /\ deckNames.none
       \/ exc.at = "results" /\ initialWords.none

\* The rejected addNote calls are followed by the call the loop makes next.
RejectedNoteGoesOn(k) ==
    LET e == trace[k] IN
    (AddNoteEvent(e) /\ e.front) =>
        \/ k = Len(trace) /\ pc = "addBack"
        \/ /\ k < Len(trace)
           /\ AddNoteEvent(trace[k + 1])
           /\ ~trace[k + 1].front
           /\ trace[k + 1].origin = e.origin
           /\ trace[k + 1].pos = e.pos

\* C18: a store call answered with a well-formed envelope whose error slot is
\* not null returns to its caller, the run is not ended by it, and a front
\* note that was rejected is followed by the addNote call of its back note.
C18_RejectionDoesNotStopRun ==
    \A k \in Positions(Rejected) :
        /\ trace[k].outcome = "return"
        /\ RejectedNoteGoesOn(k)
        /\ ~EndedByNoneResult

====
